---- MODULE Spec2Model ----
(***************************************************************************)
(* Durable-execution sample handlers: the research workflow                *)
(* (strands-research-agent/src/agent.py), the payment workflow             *)
(* (payment-processor/src/app.py) and the payment admin API                *)
(* (payment-processor/src/admin_api.py).                                   *)
(*                                                                         *)
(* The handlers are translated from the source.  The durable-execution     *)
(* engine they call (checkpointed steps, replay, retry scheduling, wait,   *)
(* callbacks, parallel) is a library outside the repository; it is         *)
(* modelled from the specification's sections 4.1 - 4.6.                   *)
(***************************************************************************)
EXTENDS Integers, Sequences, FiniteSets, TLC

\* ------------------------------------------------------------------ bounds
\* How many times an invocation of the research handler may be interrupted.
MaxCrashes == 2
\* How many distinct texts an agent call may produce.
NumDrafts == 2

\* ------------------------------------------------------------- shared values
None == [kind |-> "None"]

RECURSIVE Pow2(_)
\* 2 ** n of the source, n >= 0.
Pow2(n) == IF n <= 0 THEN 1 ELSE 2 * Pow2(n - 1)

\* =========================================================================
\* Research workflow (agent.py)
\* =========================================================================
VARIABLES
    event,        \* the handler's input: [query, demo_checkpoint]
    agentPc,      \* "start" | "suspended" | "running" | "done" | "failed"
    agentAt,      \* index in ResearchProgram of the operation the invocation is at
    research,     \* local of lambda_handler
    analysis,     \* local of lambda_handler
    report,       \* local of lambda_handler
    agentResult,  \* return value of lambda_handler
    agentLog,     \* the run's checkpoints, by operation name
    lastDecision, \* last call of the retry strategy: [error, attempt_count, decision]
    bodyRuns,     \* how many times each step body was invoked
    timersSet,    \* how many times the 10 s timer was started
    crashes       \* interruptions so far

researchVars == <<event, agentPc, agentAt, research, analysis, report, agentResult,
                  agentLog, lastDecision, bodyRuns, timersSet, crashes>>

Queries == {"AWS Lambda Durable Functions", "topic"}
Errors == {"ThrottlingException", "TimeoutError"}
Drafts == 1..NumDrafts
AgentSteps == {"research-agent", "analysis-agent", "summary-agent"}
AgentOps == AgentSteps \cup {"wait"}

\* RetryDecision.no_retry() / RetryDecision.retry(Duration(seconds = d))
NoRetry == [should_retry |-> FALSE, delay_seconds |-> 0]
Retry(d) == [should_retry |-> TRUE, delay_seconds |-> d]

\* A retry strategy that stops one attempt too late.
bedrock_retry_strategy_late(error, attempt_count) ==
    IF attempt_count > 3 THEN NoRetry
    ELSE Retry(2 * Pow2(attempt_count - 1))

\* A retry strategy whose exponent is off by one.
bedrock_retry_strategy_exp(error, attempt_count) ==
    IF attempt_count >= 3 THEN NoRetry
    ELSE Retry(2 * Pow2(attempt_count))

\* agent.py:117-121
bedrock_retry_strategy(error, attempt_count) ==
    IF attempt_count >= 3 THEN NoRetry
    ELSE Retry(2 * Pow2(attempt_count - 1))

\* The three agent calls: the text an agent returns is not determined by its
\* prompt, so each call draws one of Drafts.
invoke_research_agent(query, d) ==
    [kind |-> "research", query |-> query, draft |-> d]
invoke_analysis_agent(research_findings, d) ==
    [kind |-> "analysis", findings |-> research_findings, draft |-> d]
invoke_summary_agent(res, ana, query, d) ==
    [kind |-> "report", research |-> res, analysis |-> ana, query |-> query, draft |-> d]

\* The handler with the research agent called directly, outside context.step.
ResearchProgramUnwrapped(demo_checkpoint) ==
    <<[op |-> "call", name |-> "research-agent"],
      [op |-> "step", name |-> "analysis-agent"]>>
    \o (IF demo_checkpoint THEN <<[op |-> "wait", name |-> "wait"]>> ELSE <<>>)
    \o <<[op |-> "step", name |-> "summary-agent"]>>

\* agent.py:123-162: the durable operations of lambda_handler, in program order.
ResearchProgram(demo_checkpoint) ==
    <<[op |-> "step", name |-> "research-agent"],
      [op |-> "step", name |-> "analysis-agent"]>>
    \o (IF demo_checkpoint THEN <<[op |-> "wait", name |-> "wait"]>> ELSE <<>>)
    \o <<[op |-> "step", name |-> "summary-agent"]>>

Program == ResearchProgram(event.demo_checkpoint)
AtEnd == agentAt > Len(Program)
CurOp == Program[agentAt]

\* The body of step `name` run with the handler's locals (the lambdas of
\* agent.py:127, 138, 157).
BodyResult(name, d) ==
    CASE name = "research-agent" -> invoke_research_agent(event.query, d)
      [] name = "analysis-agent" -> invoke_analysis_agent(research, d)
      [] name = "summary-agent"  -> invoke_summary_agent(research, analysis, event.query, d)

\* Assignment of a step's value to the handler's local (agent.py:126, 137, 156).
Assign(name, v) ==
    /\ research' = IF name = "research-agent" THEN v ELSE research
    /\ analysis' = IF name = "analysis-agent" THEN v ELSE analysis
    /\ report'   = IF name = "summary-agent" THEN v ELSE report

NoCheckpoint == [status |-> "ABSENT", attempt |-> 0, result |-> None]

ResearchInit ==
    /\ event \in [query : Queries, demo_checkpoint : BOOLEAN]
    /\ agentPc = "start"
    /\ agentAt = 1
    /\ research = None /\ analysis = None /\ report = None
    /\ agentResult = None
    /\ agentLog = [o \in AgentOps |-> NoCheckpoint]
    /\ lastDecision = None
    /\ bodyRuns = [s \in AgentSteps |-> 0]
    /\ timersSet = 0
    /\ crashes = 0

\* The service invokes the handler: first invocation, or re-invocation after a
\* suspension (retry delay, wait) or an interruption.  The function runs from
\* the top with fresh locals.
AgentInvoke ==
    /\ agentPc \in {"start", "suspended"}
    /\ agentPc' = "running"
    /\ agentAt' = 1
    /\ research' = None /\ analysis' = None /\ report' = None
    /\ UNCHANGED <<event, agentResult, agentLog, lastDecision, bodyRuns, timersSet, crashes>>

\* context.step on an operation whose checkpoint is SUCCEEDED: the stored result
\* is returned and the body is not invoked.
AgentStepReplay ==
    /\ agentPc = "running" /\ ~AtEnd
    /\ CurOp.op = "step"
    /\ agentLog[CurOp.name].status = "SUCCEEDED"
    /\ Assign(CurOp.name, agentLog[CurOp.name].result)
    /\ agentAt' = agentAt + 1
    /\ UNCHANGED <<event, agentPc, agentResult, agentLog, lastDecision, bodyRuns, timersSet, crashes>>

\* context.step runs the body and it returns: the result is checkpointed.
\* (an operation that is a plain call runs its body on every invocation and
\* leaves no checkpoint.)
AgentStepSucceed ==
    /\ agentPc = "running" /\ ~AtEnd
    /\ \/ CurOp.op = "step" /\ agentLog[CurOp.name].status \in {"ABSENT", "PENDING"}
       \/ CurOp.op = "call"
    /\ \E d \in Drafts :
         LET v == BodyResult(CurOp.name, d) IN
         /\ Assign(CurOp.name, v)
         /\ agentLog' = IF CurOp.op = "step"
                        THEN [agentLog EXCEPT ![CurOp.name] =
                                [status |-> "SUCCEEDED", attempt |-> @.attempt + 1, result |-> v]]
                        ELSE agentLog
    /\ bodyRuns' = [bodyRuns EXCEPT ![CurOp.name] = @ + 1]
    /\ agentAt' = agentAt + 1
    /\ UNCHANGED <<event, agentPc, agentResult, lastDecision, timersSet, crashes>>

\* context.step runs the body and it raises: the retry strategy of the step's
\* StepConfig decides; a retry suspends the invocation for the delay, a stop
\* records the failure and fails the run.
AgentStepFail ==
    /\ agentPc = "running" /\ ~AtEnd
    /\ CurOp.op = "step"
    /\ agentLog[CurOp.name].status \in {"ABSENT", "PENDING"}
    /\ \E e \in Errors :
         LET n == agentLog[CurOp.name].attempt + 1
             decision == bedrock_retry_strategy(e, n) IN
         /\ lastDecision' = [error |-> e, attempt_count |-> n, decision |-> decision]
         /\ agentLog' = [agentLog EXCEPT ![CurOp.name] =
                           [status |-> IF decision.should_retry THEN "PENDING" ELSE "FAILED",
                            attempt |-> n, result |-> None]]
         /\ agentPc' = IF decision.should_retry THEN "suspended" ELSE "failed"
    /\ bodyRuns' = [bodyRuns EXCEPT ![CurOp.name] = @ + 1]
    /\ UNCHANGED <<event, agentAt, research, analysis, report, agentResult, timersSet, crashes>>

\* context.wait(Duration(seconds=10)): the first time the timer is started and
\* the invocation suspends; while the timer runs a re-invocation suspends again
\* on the same timer; once it has fired the wait returns at once.
AgentWait ==
    /\ agentPc = "running" /\ ~AtEnd
    /\ CurOp.op = "wait"
    /\ CASE agentLog["wait"].status = "ABSENT" ->
              /\ agentLog' = [agentLog EXCEPT !["wait"].status = "STARTED"]
              /\ timersSet' = timersSet + 1
              /\ agentPc' = "suspended"
              /\ agentAt' = agentAt
         [] agentLog["wait"].status = "STARTED" ->
              /\ agentPc' = "suspended"
              /\ UNCHANGED <<agentLog, timersSet, agentAt>>
         [] OTHER ->
              /\ agentAt' = agentAt + 1
              /\ UNCHANGED <<agentLog, timersSet, agentPc>>
    /\ UNCHANGED <<event, research, analysis, report, agentResult, lastDecision, bodyRuns, crashes>>

\* The 10 seconds pass: the service completes the wait's checkpoint.
AgentTimerFires ==
    /\ agentLog["wait"].status = "STARTED"
    /\ agentLog' = [agentLog EXCEPT !["wait"].status = "SUCCEEDED"]
    /\ UNCHANGED <<event, agentPc, agentAt, research, analysis, report, agentResult,
                   lastDecision, bodyRuns, timersSet, crashes>>

\* agent.py:169-181
AgentReturn ==
    /\ agentPc = "running" /\ AtEnd
    /\ agentResult' = [status |-> "completed", query |-> event.query,
                       checkpoint_demo |-> event.demo_checkpoint,
                       research |-> research, analysis |-> analysis, report |-> report]
    /\ agentPc' = "done"
    /\ UNCHANGED <<event, agentAt, research, analysis, report, agentLog, lastDecision,
                   bodyRuns, timersSet, crashes>>

\* The invocation is interrupted between two operations (the execution environment is
\* recycled, the function times out): its locals are lost, the checkpoints stay.
AgentCrash ==
    /\ agentPc = "running"
    /\ crashes < MaxCrashes
    /\ crashes' = crashes + 1
    /\ agentPc' = "suspended"
    /\ UNCHANGED <<event, agentAt, research, analysis, report, agentResult, agentLog,
                   lastDecision, bodyRuns, timersSet>>

\* =========================================================================
\* Payment workflow (app.py) and admin API (admin_api.py)
\* =========================================================================
VARIABLES
    payEvent,     \* per run: the "payment" of the handler's event, or NoEvent (never triggered)
    timeoutHours, \* APPROVAL_TIMEOUT_HOURS of the deployment
    table,        \* the DynamoDB payments table: payment_id -> item
    pc,           \* per run: the handler's position
    phase,        \* per run: where the step at pc is ("enter" | "get" | "update")
    loc,          \* per run: the locals of lambda_handler and of the running step body
    log,          \* per run: the step checkpoints, by operation name
    tokens,       \* the callback registry: callback_id -> token
    payResult,    \* per run: the value lambda_handler returned
    failedAt,     \* per run: the step, or the handler's exception, that failed the run
    restarts,     \* interruptions of payment invocations so far
    faults,       \* update_item calls that raised so far
    admin,        \* per admin request: the state of handle_approval
    ran,          \* per run and step: how many times the body was invoked
    completed,    \* per run and step: how many times the body returned
    firstDone     \* per run: the branch of the parallel that completed first

paymentVars == <<payEvent, timeoutHours, table, pc, phase, loc, log, tokens, payResult,
                 failedAt, restarts, faults, admin, ran, completed, firstDone>>

\* --------------------------------------------------------------- bounds
\* How many times invocations of the payment handler may be interrupted.
MaxRestarts == 1
\* How many table calls of the workflow (get_item, update_item) may raise.
MaxFaults == 1
\* Attempts the engine grants a step that has no retry configuration.
DefaultMaxAttempts == 2

\* ------------------------------------------------------------ configuration
\* app.py:24, in 1/10000 (the default "0.7")
RISK_SCORE_THRESHOLD == 7000
\* app.py:25
APPROVAL_TIMEOUT_HOURS == 24
\* app.py:31
TERMINAL_STATUSES == {"COMPLETED", "REJECTED"}
\* app.py:186: RetryStrategyConfig(max_attempts=3, ...)
FraudMaxAttempts == 3

Runs == {"run1", "run2"}
PaymentIds == {"pay_1"}
\* app.py:169: f"pay_{int(time.time() * 1000)}" at two readings of the clock
GeneratedIds == {"pay_1000", "pay_2000"}
TableKeys == PaymentIds \cup GeneratedIds
Amounts == {0, 50, 5000}
Txns == {"txn_pay_1_1000", "txn_pay_1_9999"}
AdminReqs == {"req1", "req2"}
CallbackIds == {"cb-run1", "cb-run2"}
NoEvent == [kind |-> "None"]

StepOps == {"validate_payment", "check_fraud", "verify-customer", "set_awaiting_approval",
            "handle_approval_result", "charge_payment", "send_notification"}

\* --------------------------------------------------------------- the table
NoItem == [exists |-> FALSE, status |-> "", amount |-> -1, callback_id |-> "",
           transaction_id |-> "", reason |-> "", reviewer |-> "", risk_score |-> -1]

\* app.py:78-89: put_item with ConditionExpression attribute_not_exists(payment_id)
PutIfAbsent(item, amount) ==
    IF item.exists THEN item
    ELSE [NoItem EXCEPT !.exists = TRUE, !.status = "VALIDATING", !.amount = amount]

\* update_item(SET #status = :status, <extra fields>): DynamoDB creates the item
\* when the key has none.
UpdateItem(item, status, extra) ==
    [f \in DOMAIN item |->
        IF f = "exists" THEN TRUE
        ELSE IF f = "status" THEN status
        ELSE IF f \in DOMAIN extra THEN extra[f]
        ELSE item[f]]

NoExtra == [f \in {} |-> ""]
Without(extra, key) == [f \in (DOMAIN extra) \ {key} |-> extra[f]]

\* app.py:36-48: what update_payment_status decides from the item it read:
\* None (return without writing) or the update it goes on to write.
UpsDecision(item, status, extra) ==
    IF ~item.exists THEN None
    ELSE IF item.status \in TERMINAL_STATUSES /\ status \notin TERMINAL_STATUSES THEN None
    ELSE IF status = "AWAITING_APPROVAL" /\ item.status = "AWAITING_APPROVAL" THEN None
    ELSE IF "callback_id" \in DOMAIN extra /\ item.callback_id # ""
         THEN [status |-> status, extra |-> Without(extra, "callback_id")]
    ELSE [status |-> status, extra |-> extra]

\* ------------------------------------------------------------ the step bodies
\* Each step body makes one update_payment_status call (`ups`) and then returns
\* `result` or raises.

Min(a, b) == IF a <= b THEN a ELSE b

\* app.py:105-112, in 1/10000
RiskScore(amount) ==
    IF amount < 100 THEN 1000
    ELSE IF amount < 500 THEN 4000
    ELSE IF amount < 1000 THEN 6000
    ELSE Min(7000 + (amount * 3) \div 10, 10000)

\* app.py:68-96 (after the put_item)
validate_payment(payment_data) ==
    [payment_id |-> payment_data.payment_id,
     ups |-> IF payment_data.amount <= 0
             THEN [status |-> "REJECTED", extra |-> [reason |-> "invalid_amount"]]
             ELSE [status |-> "VALIDATED", extra |-> NoExtra],
     raises |-> payment_data.amount <= 0,
     result |-> [payment_id |-> payment_data.payment_id, status |-> "validated",
                 amount |-> payment_data.amount]]

\* app.py:99-120
check_fraud(payment_id, amount) ==
    [payment_id |-> payment_id,
     ups |-> [status |-> "FRAUD_CHECKED", extra |-> [risk_score |-> RiskScore(amount)]],
     raises |-> FALSE,
     result |-> [payment_id |-> payment_id, risk_score |-> RiskScore(amount),
                 requires_review |-> RiskScore(amount) > RISK_SCORE_THRESHOLD]]

\* app.py:194: the verify-customer lambda; it touches no table.
verify_customer(payment_id) ==
    [payment_id |-> payment_id,
     ups |-> None,
     raises |-> FALSE,
     result |-> [payment_id |-> payment_id, customer_verified |-> TRUE]]

\* app.py:123-131; transaction_id is the random draw of line 128
charge_payment(payment_id, amount, transaction_id) ==
    [payment_id |-> payment_id,
     ups |-> [status |-> "CHARGED", extra |-> [transaction_id |-> transaction_id]],
     raises |-> FALSE,
     result |-> [payment_id |-> payment_id, transaction_id |-> transaction_id,
                 status |-> "charged"]]

\* app.py:134-139
send_notification(payment_id, transaction_id) ==
    [payment_id |-> payment_id,
     ups |-> [status |-> "COMPLETED", extra |-> [transaction_id |-> transaction_id]],
     raises |-> FALSE,
     result |-> [payment_id |-> payment_id, notification_sent |-> TRUE]]

\* set_awaiting_approval with its arguments passed in the wrong order.
set_awaiting_approval_swapped(payment_id, callback_id, risk_score) ==
    [payment_id |-> payment_id,
     ups |-> [status |-> "AWAITING_APPROVAL",
              extra |-> [callback_id |-> payment_id, risk_score |-> risk_score]],
     raises |-> FALSE,
     result |-> [status |-> "awaiting_approval"]]

\* app.py:142-151
set_awaiting_approval(payment_id, callback_id, risk_score) ==
    [payment_id |-> payment_id,
     ups |-> [status |-> "AWAITING_APPROVAL",
              extra |-> [callback_id |-> callback_id, risk_score |-> risk_score]],
     raises |-> FALSE,
     result |-> [status |-> "awaiting_approval"]]

\* app.py:154-161
handle_approval_result(payment_id, approved) ==
    [payment_id |-> payment_id,
     ups |-> IF approved
             THEN [status |-> "APPROVED", extra |-> NoExtra]
             ELSE [status |-> "REJECTED", extra |-> [reason |-> "approval_denied_or_timeout"]],
     raises |-> FALSE,
     result |-> [approved |-> approved]]

\* ------------------------------------------------- the callback registry
\* (the engine's, specification 4.4)
NoToken == [status |-> "NONE", payload |-> None, by |-> ""]
TerminalToken == {"RESOLVED_SUCCESS", "RESOLVED_FAILURE", "EXPIRED"}
CallbackIdOf(r) == IF r = "run1" THEN "cb-run1" ELSE "cb-run2"

\* create(run_id, name, timeout): one token per run and name, kept across
\* replays; a timeout of 0 is expired from the start.
RegistryCreate(tok, timeout) ==
    IF tok.status # "NONE" THEN tok
    ELSE [NoToken EXCEPT !.status = IF timeout = 0 THEN "EXPIRED" ELSE "PENDING"]

\* What resolve(token, outcome) answers.
ResolveAnswer(tok) ==
    CASE tok.status = "PENDING" -> "ok"
      [] tok.status = "NONE"    -> "TokenNotFound"
      [] tok.status = "EXPIRED" -> "Expired"
      [] OTHER                  -> "AlreadyResolved"

\* resolve(token, outcome): the one transition out of PENDING.
RegistryResolve(tok, kind, payload, who) ==
    IF tok.status # "PENDING" THEN tok
    ELSE [status |-> IF kind = "succeed" THEN "RESOLVED_SUCCESS" ELSE "RESOLVED_FAILURE",
          payload |-> payload, by |-> who]

\* ------------------------------------------------------- Python values
PyStr(s) == [t |-> "str", s |-> s]
\* A dict, by the repr of what it holds under "approved" ("<absent>": no such key).
PyDict(approved) == [t |-> "dict", approved |-> approved]
\* What review_callback.result() hands the workflow for an outcome that is not
\* a success: neither a str nor a dict.
PyOutcome(kind) == [t |-> "outcome", kind |-> kind]
JSONDecodeError == [t |-> "JSONDecodeError"]

ApproveText == "{\"approved\": true, \"reviewer\": \"admin\"}"
RejectText == "{\"error\": \"Rejected by admin\"}"

\* What another client may send as the result of a callback.
ExternalPayloads ==
    {PyStr("{\"approved\": false}"), PyStr("{\"approved\": 1}"), PyStr("approved"),
     PyDict("True")}

\* app.py:221: json.loads, on the texts above
JsonLoads(s) ==
    CASE s = ApproveText              -> PyDict("True")
      [] s = RejectText               -> PyDict("<absent>")
      [] s = "{\"approved\": false}"  -> PyDict("False")
      [] s = "{\"approved\": 1}"      -> PyDict("1")
      [] OTHER                        -> JSONDecodeError

\* app.py:223: isinstance(review_result, dict) and review_result.get("approved") == True
\* (in Python 1 == True)
Approved(review_result) ==
    /\ review_result.t = "dict"
    /\ review_result.approved \in {"True", "1"}

\* await(token): the outcome of a terminal token, as result() returns it.
ResultOf(tok) ==
    CASE tok.status = "RESOLVED_SUCCESS" -> tok.payload
      [] tok.status = "RESOLVED_FAILURE" -> PyOutcome("FAILED")
      [] OTHER                           -> PyOutcome("TIMED_OUT")

\* app.py:217-221: review_callback.result(), and json.loads when it is a str
ReviewResult(tok) ==
    LET got == ResultOf(tok) IN
    IF got.t = "str" THEN JsonLoads(got.s) ELSE got

\* ------------------------------------------------------------ the handler
EmptyLoc == [payment_id |-> "", validated |-> None, fraud_check |-> None, callback_id |-> "",
             review_result |-> None, approved |-> FALSE, charge_result |-> None,
             transaction_id |-> "", pend |-> None]

NoRecord == [status |-> "ABSENT", attempt |-> 0, result |-> None]

\* The handler with charge_payment called directly, outside context.step.
DurableOpsChargeUnwrapped == StepOps \ {"charge_payment"}

\* app.py:174-236: the operations lambda_handler runs through context.step
DurableOps == StepOps

\* app.py:198 with the two branches in the other order.
ParallelBranchesSwapped == <<"verify-customer", "check_fraud">>

\* app.py:198: context.parallel([run_fraud_check, verify_customer])
ParallelBranches == <<"check_fraud", "verify-customer">>

\* app.py:199: get_results()[0], counted from 1
FraudCheckIndex == 1

MaxAttemptsOf(op) == IF op = "check_fraud" THEN FraudMaxAttempts ELSE DefaultMaxAttempts

\* app.py:166-169: payment_data, with the payment_id this invocation generated
\* when the event carries none (payment_id "").
PaymentData(r, l) ==
    IF payEvent[r].payment_id = "" THEN [payEvent[r] EXCEPT !.payment_id = l.payment_id]
    ELSE payEvent[r]

\* The step body at `op`, called with the handler's locals as app.py:174-236 does.
Body(r, op, l) ==
    CASE op = "validate_payment" -> validate_payment(PaymentData(r, l))
      [] op = "check_fraud" -> check_fraud(l.validated.payment_id, l.validated.amount)
      [] op = "verify-customer" -> verify_customer(l.validated.payment_id)
      [] op = "set_awaiting_approval" ->
            set_awaiting_approval(l.validated.payment_id, l.callback_id, l.fraud_check.risk_score)
      [] op = "handle_approval_result" ->
            handle_approval_result(l.validated.payment_id, l.approved)
      [] op = "charge_payment" ->
            charge_payment(l.validated.payment_id, l.validated.amount, l.transaction_id)
      [] op = "send_notification" ->
            send_notification(l.validated.payment_id, l.charge_result.transaction_id)

\* The handler's local that takes the value of step `op` (app.py:174, 232).
Bind(l, op, v) ==
    CASE op = "validate_payment" -> [l EXCEPT !.validated = v]
      [] op = "charge_payment"   -> [l EXCEPT !.charge_result = v]
      [] OTHER                   -> l

Rejected(payment_id, reason) ==
    [payment_id |-> payment_id, status |-> "rejected", reason |-> reason]

\* app.py:177-245: where the handler goes once step `op` has returned, and what
\* it returns when it returns there.
AfterStep(op, l) ==
    CASE op = "validate_payment" ->
            IF l.validated.status # "validated"
            THEN [pc |-> "done", result |-> Rejected(l.validated.payment_id, "validation_failed")]
            ELSE [pc |-> "parallel", result |-> None]
      [] op \in {"check_fraud", "verify-customer"} ->
            [pc |-> "parallel", result |-> None]
      [] op = "set_awaiting_approval" ->
            [pc |-> "callback_result", result |-> None]
      [] op = "handle_approval_result" ->
            IF ~l.approved
            THEN [pc |-> "done",
                  result |-> Rejected(l.validated.payment_id, "approval_denied_or_timeout")]
            ELSE [pc |-> "charge_payment", result |-> None]
      [] op = "charge_payment" ->
            [pc |-> "send_notification", result |-> None]
      [] op = "send_notification" ->
            [pc |-> "done",
             result |-> [payment_id |-> l.validated.payment_id,
                         transaction_id |-> l.charge_result.transaction_id,
                         status |-> "completed", amount |-> l.validated.amount]]

\* The step the run is in: at "parallel" the run_fraud_check branch.
CurStep(r) == IF pc[r] = "parallel" THEN "check_fraud" ELSE pc[r]

\* context.step returns the checkpointed result of `op` without running its body.
Replayable(r, op) == op \in DurableOps /\ log[r][op].status = "SUCCEEDED"

\* The body of `op` returned with the locals l: its result is checkpointed and
\* the handler goes on (or returns).
StepSucceeded(r, op, l) ==
    LET v == Body(r, op, l).result
        l2 == [Bind(l, op, v) EXCEPT !.pend = None, !.transaction_id = ""]
        nxt == AfterStep(op, l2) IN
    /\ log' = IF op \in DurableOps
              THEN [log EXCEPT ![r][op] =
                      [status |-> "SUCCEEDED", attempt |-> @.attempt + 1, result |-> v]]
              ELSE log
    /\ completed' = [completed EXCEPT ![r][op] = @ + 1]
    /\ pc' = [pc EXCEPT ![r] = nxt.pc]
    /\ phase' = [phase EXCEPT ![r] = "enter"]
    /\ loc' = [loc EXCEPT ![r] = IF nxt.pc = "done" THEN EmptyLoc ELSE l2]
    /\ payResult' = IF nxt.pc = "done" THEN [payResult EXCEPT ![r] = nxt.result] ELSE payResult
    /\ firstDone' = IF pc[r] = "parallel" /\ firstDone[r] = ""
                    THEN [firstDone EXCEPT ![r] = op] ELSE firstDone
    /\ UNCHANGED failedAt

\* The body of `op` raised: the step's retry policy decides from the 1-based
\* attempt count; a retry suspends the invocation until the delay has passed,
\* a stop records the failure, which propagates and fails the run.
StepFailed(r, op, retryable) ==
    LET n == log[r][op].attempt + 1
        again == retryable /\ n < MaxAttemptsOf(op) IN
    /\ log' = [log EXCEPT ![r][op] =
                 [status |-> IF again THEN "PENDING" ELSE "FAILED", attempt |-> n,
                  result |-> None]]
    /\ pc' = [pc EXCEPT ![r] = IF again THEN "suspended" ELSE "failed"]
    /\ phase' = [phase EXCEPT ![r] = "enter"]
    /\ loc' = [loc EXCEPT ![r] = EmptyLoc]
    /\ failedAt' = IF again THEN failedAt ELSE [failedAt EXCEPT ![r] = op]
    /\ UNCHANGED <<completed, payResult, firstDone>>

\* The service invokes lambda_handler: the first invocation, or a re-invocation
\* after a suspension or an interruption.  The function runs from the top.
Invoke(r) ==
    /\ payEvent[r] # NoEvent
    /\ pc[r] \in {"start", "suspended"}
    /\ pc' = [pc EXCEPT ![r] = "validate_payment"]
    /\ phase' = [phase EXCEPT ![r] = "enter"]
    /\ \E payment_id \in (IF payEvent[r].payment_id = "" THEN GeneratedIds
                           ELSE {payEvent[r].payment_id}) :
         loc' = [loc EXCEPT ![r] = [EmptyLoc EXCEPT !.payment_id = payment_id]]
    /\ UNCHANGED <<payEvent, timeoutHours, table, log, tokens, payResult, failedAt, restarts,
                   faults, admin, ran, completed, firstDone>>

\* context.step(...) of a step whose checkpoint is SUCCEEDED.
StepReplay(r) ==
    /\ pc[r] \in StepOps
    /\ phase[r] = "enter"
    /\ Replayable(r, pc[r])
    /\ LET l2 == Bind(loc[r], pc[r], log[r][pc[r]].result)
           nxt == AfterStep(pc[r], l2) IN
       /\ pc' = [pc EXCEPT ![r] = nxt.pc]
       /\ loc' = [loc EXCEPT ![r] = IF nxt.pc = "done" THEN EmptyLoc ELSE l2]
       /\ payResult' = IF nxt.pc = "done" THEN [payResult EXCEPT ![r] = nxt.result]
                       ELSE payResult
    /\ UNCHANGED <<payEvent, timeoutHours, table, phase, log, tokens, failedAt, restarts,
                   faults, admin, ran, completed, firstDone>>

\* validate_payment up to its put_item (app.py:71-89).
ValidatePut(r) ==
    /\ pc[r] = "validate_payment"
    /\ phase[r] = "enter"
    /\ ~Replayable(r, "validate_payment")
    /\ table' = [table EXCEPT ![PaymentData(r, loc[r]).payment_id] =
                    PutIfAbsent(@, payEvent[r].amount)]
    /\ phase' = [phase EXCEPT ![r] = "get"]
    /\ ran' = [ran EXCEPT ![r]["validate_payment"] = @ + 1]
    /\ UNCHANGED <<payEvent, timeoutHours, pc, loc, log, tokens, payResult, failedAt, restarts,
                   faults, admin, completed, firstDone>>

\* A step body up to the get_item of its update_payment_status call
\* (app.py:36-50): the item is read and the update decided, or the read raises
\* and update_payment_status returns.  A body that has nothing to write is over.
StepGet(r) ==
    LET op == CurStep(r)
        entering == phase[r] = "enter" IN
    /\ op \in StepOps \ {"verify-customer"}
    /\ \/ phase[r] = "get"
       \/ entering /\ op # "validate_payment" /\ ~Replayable(r, op)
    /\ \E txn \in (IF entering /\ op = "charge_payment" THEN Txns
                   ELSE {loc[r].transaction_id}),
          readOk \in (IF faults < MaxFaults THEN BOOLEAN ELSE {TRUE}) :
         LET l == [loc[r] EXCEPT !.transaction_id = txn]
             b == Body(r, op, l)
             d == IF readOk THEN UpsDecision(table[b.payment_id], b.ups.status, b.ups.extra)
                  ELSE None IN
         /\ faults' = IF readOk THEN faults ELSE faults + 1
         /\ IF d = None
            THEN IF b.raises THEN StepFailed(r, op, FALSE) ELSE StepSucceeded(r, op, l)
            ELSE /\ phase' = [phase EXCEPT ![r] = "update"]
                 /\ loc' = [loc EXCEPT ![r] = [l EXCEPT !.pend = d]]
                 /\ UNCHANGED <<pc, log, completed, payResult, failedAt, firstDone>>
    /\ ran' = IF entering THEN [ran EXCEPT ![r][op] = @ + 1] ELSE ran
    /\ UNCHANGED <<payEvent, timeoutHours, table, tokens, restarts, admin>>

\* The update_item of update_payment_status (app.py:52-65) succeeds and the
\* body returns (or raises, app.py:93).
StepUpdate(r) ==
    LET op == CurStep(r)
        b == Body(r, op, loc[r]) IN
    /\ op \in StepOps
    /\ phase[r] = "update"
    /\ table' = [table EXCEPT ![b.payment_id] =
                    UpdateItem(@, loc[r].pend.status, loc[r].pend.extra)]
    /\ IF b.raises THEN StepFailed(r, op, FALSE) ELSE StepSucceeded(r, op, loc[r])
    /\ UNCHANGED <<payEvent, timeoutHours, tokens, restarts, faults, admin, ran>>

\* The update_item raises: the exception leaves the step body.  Failing table
\* calls, this one and the get_item of StepGet, are at most MaxFaults.
StepUpdateRaises(r) ==
    /\ CurStep(r) \in StepOps
    /\ phase[r] = "update"
    /\ faults < MaxFaults
    /\ faults' = faults + 1
    /\ StepFailed(r, CurStep(r), TRUE)
    /\ UNCHANGED <<payEvent, timeoutHours, table, tokens, restarts, admin, ran>>

\* The verify_customer branch of the parallel (app.py:192-196).
VerifyCustomer(r) ==
    /\ pc[r] = "parallel"
    /\ ~Replayable(r, "verify-customer")
    /\ log' = [log EXCEPT ![r]["verify-customer"] =
                 [status |-> "SUCCEEDED", attempt |-> @.attempt + 1,
                  result |-> Body(r, "verify-customer", loc[r]).result]]
    /\ ran' = [ran EXCEPT ![r]["verify-customer"] = @ + 1]
    /\ completed' = [completed EXCEPT ![r]["verify-customer"] = @ + 1]
    /\ firstDone' = IF firstDone[r] = "" THEN [firstDone EXCEPT ![r] = "verify-customer"]
                    ELSE firstDone
    /\ UNCHANGED <<payEvent, timeoutHours, table, pc, phase, loc, tokens, payResult, failedAt,
                   restarts, faults, admin>>

\* Both branches are done: the parallel returns their results in the order of
\* the branches it was given; app.py:199-204 take the fraud check from it.
ParallelJoin(r) ==
    /\ pc[r] = "parallel"
    /\ phase[r] = "enter"
    /\ \A i \in 1..2 : Replayable(r, ParallelBranches[i])
    /\ LET results == [i \in 1..2 |-> log[r][ParallelBranches[i]].result]
           fraud_check == results[FraudCheckIndex] IN
       IF "requires_review" \notin DOMAIN fraud_check
       THEN /\ pc' = [pc EXCEPT ![r] = "failed"]
            /\ failedAt' = [failedAt EXCEPT ![r] = "KeyError"]
            /\ loc' = [loc EXCEPT ![r] = EmptyLoc]
       ELSE /\ pc' = [pc EXCEPT ![r] = IF fraud_check.requires_review
                                        THEN "create_callback" ELSE "charge_payment"]
            /\ loc' = [loc EXCEPT ![r].fraud_check = fraud_check]
            /\ UNCHANGED failedAt
    /\ UNCHANGED <<payEvent, timeoutHours, table, phase, log, tokens, payResult, restarts,
                   faults, admin, ran, completed, firstDone>>

\* app.py:207-210: context.create_callback
CreateCallback(r) ==
    /\ pc[r] = "create_callback"
    /\ tokens' = [tokens EXCEPT ![CallbackIdOf(r)] = RegistryCreate(@, timeoutHours)]
    /\ loc' = [loc EXCEPT ![r].callback_id = CallbackIdOf(r)]
    /\ pc' = [pc EXCEPT ![r] = "set_awaiting_approval"]
    /\ UNCHANGED <<payEvent, timeoutHours, table, phase, log, payResult, failedAt, restarts,
                   faults, admin, ran, completed, firstDone>>

\* app.py:217: review_callback.result() while the token is pending: the
\* invocation suspends.
CallbackSuspend(r) ==
    /\ pc[r] = "callback_result"
    /\ tokens[loc[r].callback_id].status = "PENDING"
    /\ pc' = [pc EXCEPT ![r] = "suspended"]
    /\ loc' = [loc EXCEPT ![r] = EmptyLoc]
    /\ UNCHANGED <<payEvent, timeoutHours, table, phase, log, tokens, payResult, failedAt,
                   restarts, faults, admin, ran, completed, firstDone>>

\* app.py:217-223: review_callback.result() on a terminal token, json.loads of
\* a str result, and approved.
CallbackResult(r) ==
    /\ pc[r] = "callback_result"
    /\ tokens[loc[r].callback_id].status \in TerminalToken
    /\ LET review_result == ReviewResult(tokens[loc[r].callback_id]) IN
       IF review_result = JSONDecodeError
       THEN /\ pc' = [pc EXCEPT ![r] = "failed"]
            /\ failedAt' = [failedAt EXCEPT ![r] = "JSONDecodeError"]
            /\ loc' = [loc EXCEPT ![r] = EmptyLoc]
       ELSE /\ pc' = [pc EXCEPT ![r] = "handle_approval_result"]
            /\ loc' = [loc EXCEPT ![r].review_result = review_result,
                                  ![r].approved = Approved(review_result)]
            /\ UNCHANGED failedAt
    /\ UNCHANGED <<payEvent, timeoutHours, table, phase, log, tokens, payResult, restarts,
                   faults, admin, ran, completed, firstDone>>

\* The invocation is interrupted (the execution environment is recycled, the function times
\* out): its locals are lost, the checkpoints, the tokens and the table stay.
Crash(r) ==
    /\ pc[r] \notin {"start", "suspended", "done", "failed"}
    /\ restarts < MaxRestarts
    /\ restarts' = restarts + 1
    /\ pc' = [pc EXCEPT ![r] = "suspended"]
    /\ phase' = [phase EXCEPT ![r] = "enter"]
    /\ loc' = [loc EXCEPT ![r] = EmptyLoc]
    /\ UNCHANGED <<payEvent, timeoutHours, table, log, tokens, payResult, failedAt, faults,
                   admin, ran, completed, firstDone>>

\* ------------------------------------------------------------ the registry's clients
\* The approval timeout passes while the token is pending.
CallbackExpires(c) ==
    /\ tokens[c].status = "PENDING"
    /\ tokens' = [tokens EXCEPT ![c] = [@ EXCEPT !.status = "EXPIRED", !.by = "timeout"]]
    /\ UNCHANGED <<payEvent, timeoutHours, table, pc, phase, loc, log, payResult, failedAt,
                   restarts, faults, admin, ran, completed, firstDone>>

\* A client other than the admin API resolves a pending token.
ExternalResolve(c) ==
    /\ tokens[c].status = "PENDING"
    /\ \/ \E payload \in ExternalPayloads :
            tokens' = [tokens EXCEPT ![c] = RegistryResolve(@, "succeed", payload, "external")]
       \/ tokens' = [tokens EXCEPT ![c] = RegistryResolve(@, "fail", PyStr(RejectText), "external")]
    /\ UNCHANGED <<payEvent, timeoutHours, table, pc, phase, loc, log, payResult, failedAt,
                   restarts, faults, admin, ran, completed, firstDone>>

\* ------------------------------------------------------------ admin API
\* A request is "off" (never made), "idle" (not yet made), in handle_approval
\* ("send", "update") or "done" (answered).
IdleRequest == [pc |-> "idle", approved |-> FALSE, payment_id |-> "", callback_id |-> "",
                statusCode |-> 0, answer |-> "", code |-> 0, items |-> {}]

\* HTTP status the callback endpoint may give a resolve that the registry refuses.
RefusedCodes == {400, 409}

\* handle_approval going on to its update_item whatever the HTTP error.
SwallowedCodesAll == RefusedCodes

\* admin_api.py:176: the HTTP error codes handle_approval logs and ignores
SwallowedCodes == {400}

\* handle_approval without its check of the status.
handle_approval_checks_nostatus(payment_id, item) ==
    IF payment_id = "" THEN 400
    ELSE IF ~item.exists THEN 404
    ELSE IF item.callback_id = "" THEN 400
    ELSE 0

\* admin_api.py:131-146: the statusCode handle_approval returns with before it
\* sends anything, 0 when it goes on; payment_id "" is a body without one.
handle_approval_checks(payment_id, item) ==
    IF payment_id = "" THEN 400
    ELSE IF ~item.exists THEN 404
    ELSE IF item.status # "AWAITING_APPROVAL" THEN 400
    ELSE IF item.callback_id = "" THEN 400
    ELSE 0

\* admin_api.py:127-146: handle_approval up to the checks on the item it read.
AdminGet(a) ==
    /\ admin[a].pc = "idle"
    /\ \E approved \in BOOLEAN, payment_id \in PaymentIds \cup {""} :
         LET item == IF payment_id = "" THEN NoItem ELSE table[payment_id]
             req == [admin[a] EXCEPT !.approved = approved, !.payment_id = payment_id]
             refused == handle_approval_checks(payment_id, item) IN
         admin' = [admin EXCEPT ![a] =
            IF refused # 0 THEN [req EXCEPT !.pc = "done", !.statusCode = refused]
            ELSE [req EXCEPT !.pc = "send", !.callback_id = item.callback_id]]
    /\ UNCHANGED <<payEvent, timeoutHours, table, pc, phase, loc, log, tokens, payResult,
                   failedAt, restarts, faults, ran, completed, firstDone>>

\* admin_api.py:148-177: the callback request reaches the endpoint.  A refusal
\* answered with HTTP 400 is logged and ignored, any other one is re-raised
\* and answered with 500.
AdminSend(a) ==
    /\ admin[a].pc = "send"
    /\ LET c == admin[a].callback_id
           answer == IF c \in CallbackIds THEN ResolveAnswer(tokens[c]) ELSE "TokenNotFound" IN
       /\ tokens' = IF c \in CallbackIds
                     THEN [tokens EXCEPT ![c] =
                             IF admin[a].approved
                             THEN RegistryResolve(@, "succeed", PyStr(ApproveText), a)
                             ELSE RegistryResolve(@, "fail", PyStr(RejectText), a)]
                     ELSE tokens
       /\ IF answer = "ok"
          THEN admin' = [admin EXCEPT ![a].pc = "update", ![a].answer = "ok", ![a].code = 200]
          ELSE \E code \in RefusedCodes :
                 admin' = [admin EXCEPT ![a] =
                    IF code \in SwallowedCodes
                    THEN [@ EXCEPT !.pc = "update", !.answer = answer, !.code = code]
                    ELSE [@ EXCEPT !.pc = "done", !.answer = answer, !.code = code,
                                   !.statusCode = 500]]
    /\ UNCHANGED <<payEvent, timeoutHours, table, pc, phase, loc, log, payResult, failedAt,
                   restarts, faults, ran, completed, firstDone>>

\* admin_api.py:169-177, 192-193: the callback request is not delivered (no
\* connection, HTTP 5xx): the exception is answered with 500.
AdminSendRaises(a) ==
    /\ admin[a].pc = "send"
    /\ admin' = [admin EXCEPT ![a].pc = "done", ![a].answer = "undelivered",
                              ![a].statusCode = 500]
    /\ UNCHANGED <<payEvent, timeoutHours, table, pc, phase, loc, log, tokens, payResult,
                   failedAt, restarts, faults, ran, completed, firstDone>>

\* admin_api.py:179-191: the unconditional update_item and the 200 answer.
AdminUpdate(a) ==
    /\ admin[a].pc = "update"
    /\ table' = [table EXCEPT ![admin[a].payment_id] =
                    [@ EXCEPT !.exists = TRUE,
                              !.status = IF admin[a].approved THEN "APPROVED" ELSE "REJECTED",
                              !.reviewer = "admin"]]
    /\ admin' = [admin EXCEPT ![a].pc = "done", ![a].statusCode = 200]
    /\ UNCHANGED <<payEvent, timeoutHours, pc, phase, loc, log, tokens, payResult, failedAt,
                   restarts, faults, ran, completed, firstDone>>

\* admin_api.py:52-53: clear_all_payments scans the table for its keys.
ClearScan(a) ==
    /\ admin[a].pc = "idle"
    /\ admin' = [admin EXCEPT ![a].pc = "clear",
                              ![a].items = {p \in TableKeys : table[p].exists}]
    /\ UNCHANGED <<payEvent, timeoutHours, table, pc, phase, loc, log, tokens, payResult,
                   failedAt, restarts, faults, ran, completed, firstDone>>

\* admin_api.py:54-58: it deletes the items it scanned and answers 200.
ClearDelete(a) ==
    /\ admin[a].pc = "clear"
    /\ table' = [p \in TableKeys |-> IF p \in admin[a].items THEN NoItem ELSE table[p]]
    /\ admin' = [admin EXCEPT ![a].pc = "done", ![a].statusCode = 200]
    /\ UNCHANGED <<payEvent, timeoutHours, pc, phase, loc, log, tokens, payResult, failedAt,
                   restarts, faults, ran, completed, firstDone>>

PaymentInit ==
    /\ payEvent \in [Runs -> [payment_id : PaymentIds \cup {""}, amount : Amounts]
                               \cup {NoEvent}]
    /\ timeoutHours \in {0, APPROVAL_TIMEOUT_HOURS}
    /\ table = [p \in TableKeys |-> NoItem]
    /\ pc = [r \in Runs |-> "start"]
    /\ phase = [r \in Runs |-> "enter"]
    /\ loc = [r \in Runs |-> EmptyLoc]
    /\ log = [r \in Runs |-> [op \in StepOps |-> NoRecord]]
    /\ tokens = [c \in CallbackIds |-> NoToken]
    /\ payResult = [r \in Runs |-> None]
    /\ failedAt = [r \in Runs |-> ""]
    /\ restarts = 0
    /\ faults \in {0, MaxFaults}
    /\ admin \in [AdminReqs -> {IdleRequest, [IdleRequest EXCEPT !.pc = "off"]}]
    /\ ran = [r \in Runs |-> [op \in StepOps |-> 0]]
    /\ completed = [r \in Runs |-> [op \in StepOps |-> 0]]
    /\ firstDone = [r \in Runs |-> ""]

\* One run of the payment workflow.
OneRun == payEvent["run2"] = NoEvent
\* One request to the admin API.
OneRequest == admin["req2"].pc = "off"

\* =========================================================================
\* Specifications
\* =========================================================================
vars == <<researchVars, paymentVars>>

\* The research workflow alone: no payment is ever triggered.
InitResearch ==
    /\ ResearchInit
    /\ PaymentInit
    /\ payEvent = [r \in Runs |-> NoEvent]
    /\ timeoutHours = APPROVAL_TIMEOUT_HOURS
    /\ OneRequest
    /\ faults = MaxFaults

NextResearch ==
    \/ AgentInvoke /\ UNCHANGED paymentVars
    \/ AgentStepReplay /\ UNCHANGED paymentVars
    \/ AgentStepSucceed /\ UNCHANGED paymentVars
    \/ AgentStepFail /\ UNCHANGED paymentVars
    \/ AgentWait /\ UNCHANGED paymentVars
    \/ AgentTimerFires /\ UNCHANGED paymentVars
    \/ AgentReturn /\ UNCHANGED paymentVars
    \/ AgentCrash /\ UNCHANGED paymentVars

SpecResearch == InitResearch /\ [][NextResearch]_vars

\* One run of the payment workflow and the clients of its callback, with
\* interruptions and failing table calls; no request to the admin API.
Init ==
    /\ ResearchInit
    /\ event = [query |-> "topic", demo_checkpoint |-> FALSE]
    /\ PaymentInit
    /\ payEvent["run1"] \in [payment_id : PaymentIds, amount : Amounts]
    /\ OneRun
    /\ \A a \in AdminReqs : admin[a].pc = "off"
    /\ faults = 0

Next ==
    \/ \E r \in Runs : Invoke(r) /\ UNCHANGED researchVars
    \/ \E r \in Runs : StepReplay(r) /\ UNCHANGED researchVars
    \/ \E r \in Runs : ValidatePut(r) /\ UNCHANGED researchVars
    \/ \E r \in Runs : StepGet(r) /\ UNCHANGED researchVars
    \/ \E r \in Runs : StepUpdate(r) /\ UNCHANGED researchVars
    \/ \E r \in Runs : StepUpdateRaises(r) /\ UNCHANGED researchVars
    \/ \E r \in Runs : VerifyCustomer(r) /\ UNCHANGED researchVars
    \/ \E r \in Runs : ParallelJoin(r) /\ UNCHANGED researchVars
    \/ \E r \in Runs : CreateCallback(r) /\ UNCHANGED researchVars
    \/ \E r \in Runs : CallbackSuspend(r) /\ UNCHANGED researchVars
    \/ \E r \in Runs : CallbackResult(r) /\ UNCHANGED researchVars
    \/ \E r \in Runs : Crash(r) /\ UNCHANGED researchVars
    \/ \E c \in CallbackIds : CallbackExpires(c) /\ UNCHANGED researchVars
    \/ \E c \in CallbackIds : ExternalResolve(c) /\ UNCHANGED researchVars

Spec == Init /\ [][Next]_vars

\* One run that needs a review, two requests to the admin API and the
\* callback's other clients; no interruption and no failing table call.
InitAdmin ==
    /\ ResearchInit
    /\ event = [query |-> "topic", demo_checkpoint |-> FALSE]
    /\ PaymentInit
    /\ payEvent["run1"] \in [payment_id : PaymentIds, amount : {5000}]
    /\ OneRun
    /\ \A a \in AdminReqs : admin[a].pc = "idle"
    /\ faults = MaxFaults

NextAdmin ==
    \/ \E r \in Runs : Invoke(r) /\ UNCHANGED researchVars
    \/ \E r \in Runs : StepReplay(r) /\ UNCHANGED researchVars
    \/ \E r \in Runs : ValidatePut(r) /\ UNCHANGED researchVars
    \/ \E r \in Runs : StepGet(r) /\ UNCHANGED researchVars
    \/ \E r \in Runs : StepUpdate(r) /\ UNCHANGED researchVars
    \/ \E r \in Runs : VerifyCustomer(r) /\ UNCHANGED researchVars
    \/ \E r \in Runs : ParallelJoin(r) /\ UNCHANGED researchVars
    \/ \E r \in Runs : CreateCallback(r) /\ UNCHANGED researchVars
    \/ \E r \in Runs : CallbackSuspend(r) /\ UNCHANGED researchVars
    \/ \E r \in Runs : CallbackResult(r) /\ UNCHANGED researchVars
    \/ \E c \in CallbackIds : CallbackExpires(c) /\ UNCHANGED researchVars
    \/ \E c \in CallbackIds : ExternalResolve(c) /\ UNCHANGED researchVars
    \/ \E a \in AdminReqs : AdminGet(a) /\ UNCHANGED researchVars
    \/ \E a \in AdminReqs : AdminSend(a) /\ UNCHANGED researchVars
    \/ \E a \in AdminReqs : AdminSendRaises(a) /\ UNCHANGED researchVars
    \/ \E a \in AdminReqs : AdminUpdate(a) /\ UNCHANGED researchVars

SpecAdmin == InitAdmin /\ [][NextAdmin]_vars

\* Two runs started for the same payment_id, each needing a review, whose
\* callbacks time out; no admin request, no interruption and no failing table call.
InitTwoRuns ==
    /\ ResearchInit
    /\ event = [query |-> "topic", demo_checkpoint |-> FALSE]
    /\ PaymentInit
    /\ payEvent \in [Runs -> [payment_id : PaymentIds, amount : {5000}]]
    /\ \A a \in AdminReqs : admin[a].pc = "off"
    /\ faults = MaxFaults

NextTwoRuns ==
    \/ \E r \in Runs : Invoke(r) /\ UNCHANGED researchVars
    \/ \E r \in Runs : StepReplay(r) /\ UNCHANGED researchVars
    \/ \E r \in Runs : ValidatePut(r) /\ UNCHANGED researchVars
    \/ \E r \in Runs : StepGet(r) /\ UNCHANGED researchVars
    \/ \E r \in Runs : StepUpdate(r) /\ UNCHANGED researchVars
    \/ \E r \in Runs : VerifyCustomer(r) /\ UNCHANGED researchVars
    \/ \E r \in Runs : ParallelJoin(r) /\ UNCHANGED researchVars
    \/ \E r \in Runs : CreateCallback(r) /\ UNCHANGED researchVars
    \/ \E r \in Runs : CallbackSuspend(r) /\ UNCHANGED researchVars
    \/ \E r \in Runs : CallbackResult(r) /\ UNCHANGED researchVars
    \/ \E c \in CallbackIds : CallbackExpires(c) /\ UNCHANGED researchVars

SpecTwoRuns == InitTwoRuns /\ [][NextTwoRuns]_vars

\* One run whose event carries no payment_id, with interruptions; no review,
\* no admin request and no failing table call.
InitClock ==
    /\ ResearchInit
    /\ event = [query |-> "topic", demo_checkpoint |-> FALSE]
    /\ PaymentInit
    /\ payEvent["run1"] \in [payment_id : {""}, amount : {0, 50}]
    /\ OneRun
    /\ \A a \in AdminReqs : admin[a].pc = "off"
    /\ faults = MaxFaults

NextClock ==
    \/ \E r \in Runs : Invoke(r) /\ UNCHANGED researchVars
    \/ \E r \in Runs : StepReplay(r) /\ UNCHANGED researchVars
    \/ \E r \in Runs : ValidatePut(r) /\ UNCHANGED researchVars
    \/ \E r \in Runs : StepGet(r) /\ UNCHANGED researchVars
    \/ \E r \in Runs : StepUpdate(r) /\ UNCHANGED researchVars
    \/ \E r \in Runs : VerifyCustomer(r) /\ UNCHANGED researchVars
    \/ \E r \in Runs : ParallelJoin(r) /\ UNCHANGED researchVars
    \/ \E r \in Runs : Crash(r) /\ UNCHANGED researchVars

SpecClock == InitClock /\ [][NextClock]_vars

\* One run that needs no review and one request to clear the table, with
\* interruptions; no failing table call.
InitClear ==
    /\ ResearchInit
    /\ event = [query |-> "topic", demo_checkpoint |-> FALSE]
    /\ PaymentInit
    /\ payEvent["run1"] \in [payment_id : PaymentIds, amount : {0, 50}]
    /\ OneRun
    /\ OneRequest
    /\ admin["req1"].pc = "idle"
    /\ faults = MaxFaults

NextClear ==
    \/ \E r \in Runs : Invoke(r) /\ UNCHANGED researchVars
    \/ \E r \in Runs : StepReplay(r) /\ UNCHANGED researchVars
    \/ \E r \in Runs : ValidatePut(r) /\ UNCHANGED researchVars
    \/ \E r \in Runs : StepGet(r) /\ UNCHANGED researchVars
    \/ \E r \in Runs : StepUpdate(r) /\ UNCHANGED researchVars
    \/ \E r \in Runs : VerifyCustomer(r) /\ UNCHANGED researchVars
    \/ \E r \in Runs : ParallelJoin(r) /\ UNCHANGED researchVars
    \/ \E r \in Runs : Crash(r) /\ UNCHANGED researchVars
    \/ \E a \in AdminReqs : ClearScan(a) /\ UNCHANGED researchVars
    \/ \E a \in AdminReqs : ClearDelete(a) /\ UNCHANGED researchVars

SpecClear == InitClear /\ [][NextClear]_vars

\* =========================================================================
\* Claims about the research workflow
\* =========================================================================

\* C8: every decision of bedrock_retry_strategy is a function of its inputs
\* alone, with retry delay 2 * 2^(attempt_count - 1) seconds: retry after 2 s
\* for attempt_count = 1, retry after 4 s for attempt_count = 2, and the same
\* decision for every error at the same attempt_count.
C8_BackoffDelay ==
    lastDecision # None =>
        LET a == lastDecision.attempt_count
            d == lastDecision.decision IN
        /\ a = 1 => d = Retry(2)
        /\ a = 2 => d = Retry(4)
        /\ d.should_retry => d.delay_seconds = 2 * Pow2(a - 1)
        /\ \A e \in Errors : bedrock_retry_strategy(e, a) = d

\* C8 witness: the strategy was consulted after a second failed attempt.
C8_Witness ==
    /\ lastDecision # None
    /\ lastDecision.attempt_count = 2
    /\ lastDecision.decision.should_retry

C9_Inv ==
    /\ \A e \in Errors : bedrock_retry_strategy(e, 4) = NoRetry
    /\ \A s \in AgentSteps :
         /\ bodyRuns[s] <= 3
         /\ agentLog[s].attempt <= 3
         /\ agentLog[s].status = "PENDING" => agentLog[s].attempt \in {1, 2}
         /\ agentLog[s].status = "FAILED" =>
              /\ agentLog[s].attempt = 3
              /\ bodyRuns[s] = 3
              /\ agentPc = "failed"
    /\ agentPc = "failed" =>
         /\ agentAt <= Len(Program)
         /\ agentLog[CurOp.name].status = "FAILED"
         /\ \A i \in (agentAt + 1)..Len(Program) :
              /\ Program[i].op = "step" => bodyRuns[Program[i].name] = 0
              /\ agentLog[Program[i].name] = NoCheckpoint
         /\ agentResult = None

C9_Step ==
    /\ \A s \in AgentSteps : agentLog'[s].attempt >= agentLog[s].attempt
    /\ agentPc = "failed" => agentPc' = "failed"

\* C9: a step that keeps failing is attempted 3 times (the strategy grants a
\* retry after attempts 1 and 2 and would stop at attempt 4 as well), its
\* attempt count never decreases, its body is never invoked a 4th time, and the
\* failure fails the run for good with no later step run.
C9_ThreeAttempts == [](C9_Inv) /\ [][C9_Step]_vars

\* C9 witness: the second step failed three times and failed the run.
C9_Witness ==
    /\ agentPc = "failed"
    /\ agentLog["analysis-agent"].status = "FAILED"
    /\ bodyRuns["analysis-agent"] = 3

C10_Inv ==
    event.demo_checkpoint =>
        /\ timersSet <= 1
        /\ agentPc = "done" =>
             /\ agentResult.report = agentLog["summary-agent"].result
             /\ agentResult.report.research = agentLog["research-agent"].result
             /\ agentResult.report.analysis = agentLog["analysis-agent"].result
             /\ agentResult.report.analysis.findings = agentLog["research-agent"].result

C10_Step ==
    (event.demo_checkpoint /\ agentLog["wait"].status # "ABSENT") =>
        /\ bodyRuns'["research-agent"] = bodyRuns["research-agent"]
        /\ bodyRuns'["analysis-agent"] = bodyRuns["analysis-agent"]
        /\ timersSet' = timersSet

\* C10: with demo_checkpoint, once the wait has been started no invocation
\* runs the research or analysis body again or starts the timer again, and the
\* report is built from the checkpointed research and analysis values.
C10_ReplayAfterWait == [](C10_Inv) /\ [][C10_Step]_vars

\* C10 witness: a demo run that suspended on the wait, was re-invoked and
\* returned its report.
C10_Witness ==
    /\ event.demo_checkpoint
    /\ agentPc = "done"
    /\ timersSet = 1
    /\ bodyRuns["summary-agent"] >= 1

\* =========================================================================
\* Claims about the payment workflow and the admin API
\* =========================================================================
ReviewRuns == {r \in Runs : /\ log[r]["check_fraud"].status = "SUCCEEDED"
                             /\ log[r]["check_fraud"].result.requires_review}

C1_Inv ==
    \A r \in Runs : \A op \in StepOps :
        /\ completed[r][op] <= 1
        /\ completed[r][op] = 1 <=> log[r][op].status = "SUCCEEDED"

C1_Step ==
    \A r \in Runs : \A op \in StepOps :
        log[r][op].status = "SUCCEEDED" =>
            /\ ran'[r][op] = ran[r][op]
            /\ completed'[r][op] = completed[r][op]
            /\ log'[r][op] = log[r][op]

\* C1: in every run each step body returns at most once, charge_payment
\* included, and once a step has succeeded no later invocation of the handler
\* (replay after a suspension, an interruption or the retry of a later step)
\* invokes its body again or changes its checkpoint.
C1_NoReExecution == [](C1_Inv) /\ [][C1_Step]_vars

\* C1 witness: charge_payment succeeded on its second attempt after an
\* interruption, with validate_payment run once.
C1_Witness ==
    /\ log["run1"]["charge_payment"].status = "SUCCEEDED"
    /\ log["run1"]["charge_payment"].attempt = 2
    /\ restarts = 1
    /\ ran["run1"]["validate_payment"] = 1
    /\ pc["run1"] = "done"

\* C2 (the claim as stated): for a payment whose fraud check requires a review,
\* charge_payment and send_notification run only if the callback was resolved
\* successfully with a payload whose "approved" is true; with any other outcome
\* of the callback the run ends returning "rejected", with the reason
\* approval_denied_or_timeout recorded, and never charges.
C2_ChargeOnlyIfApproved ==
    \A r \in ReviewRuns :
        LET pid == payEvent[r].payment_id
            tok == tokens[CallbackIdOf(r)]
            ok == tok.status = "RESOLVED_SUCCESS" /\ Approved(ReviewResult(tok)) IN
        /\ (ran[r]["charge_payment"] > 0 \/ ran[r]["send_notification"] > 0) => ok
        /\ (tok.status \in TerminalToken /\ ~ok /\ pc[r] \in {"done", "failed"}) =>
              /\ pc[r] = "done"
              /\ payResult[r] = Rejected(pid, "approval_denied_or_timeout")
              /\ table[pid].reason = "approval_denied_or_timeout"

\* C3 (the claim as stated): of the admin requests sent for one callback at
\* most one resolves it; when one did, every other one is refused as already
\* resolved and fails, going on to no update and to no 200 answer; and the
\* approval the workflow acts on is the decision of the request that resolved.
C3_ResolvedOnce ==
    \A c \in CallbackIds :
        LET sent == {a \in AdminReqs : /\ admin[a].callback_id = c
                                       /\ admin[a].answer \notin {"", "undelivered"}}
            winners == {a \in sent : admin[a].answer = "ok"} IN
        /\ Cardinality(winners) <= 1
        /\ tokens[c].by \in AdminReqs =>
              /\ winners = {tokens[c].by}
              /\ \A a \in sent \ winners :
                    /\ admin[a].answer = "AlreadyResolved"
                    /\ admin[a].pc # "update"
                    /\ admin[a].statusCode # 200
              /\ \A r \in Runs :
                    (CallbackIdOf(r) = c /\ log[r]["handle_approval_result"].status = "SUCCEEDED")
                    => log[r]["handle_approval_result"].result.approved
                         = admin[tokens[c].by].approved

\* C4 (the claim as stated): a payment whose status is COMPLETED or REJECTED
\* keeps a terminal status at every later write.
C4_TerminalStatusKept ==
    [][\A p \in PaymentIds :
          table[p].status \in TERMINAL_STATUSES => table'[p].status \in TERMINAL_STATUSES]_vars

\* C6 (the claim as stated): a callback_id a payment record holds is never
\* replaced, and a step that sets AWAITING_APPROVAL leaves a record that is
\* already AWAITING_APPROVAL as it is.
C6_CallbackIdKept ==
    [][\A p \in PaymentIds :
          /\ table[p].callback_id # "" => table'[p].callback_id = table[p].callback_id
          /\ (/\ table[p].status = "AWAITING_APPROVAL"
              /\ \E r \in Runs : /\ pc[r] = "set_awaiting_approval"
                                  /\ phase[r] = "update"
                                  /\ pc'[r] # "set_awaiting_approval")
             => table'[p] = table[p]]_vars

\* No table call has failed and no admin request has written the record.
Undisturbed == faults = 0 /\ \A a \in AdminReqs : admin[a].statusCode # 200

\* What a run that needed a review returns and leaves in the table, from its
\* input, the outcome of its callback and the transaction id it drew.
ExpectedEnd(r) ==
    LET pid == payEvent[r].payment_id
        approved == Approved(ReviewResult(tokens[CallbackIdOf(r)]))
        txn == IF approved THEN log[r]["charge_payment"].result.transaction_id ELSE "" IN
    [result |-> IF approved
                THEN [payment_id |-> pid, transaction_id |-> txn, status |-> "completed",
                      amount |-> payEvent[r].amount]
                ELSE Rejected(pid, "approval_denied_or_timeout"),
     status |-> IF approved THEN "COMPLETED" ELSE "REJECTED",
     callback_id |-> CallbackIdOf(r),
     transaction_id |-> txn]

C5_Inv ==
    \A r \in ReviewRuns :
        LET item == table[payEvent[r].payment_id] IN
        /\ loc[r].callback_id \in {"", CallbackIdOf(r)}
        /\ item.callback_id \in {"", CallbackIdOf(r)}
        /\ (Undisturbed /\ item.status = "AWAITING_APPROVAL") =>
              item.callback_id = CallbackIdOf(r)
        /\ (Undisturbed /\ pc[r] = "done") =>
              /\ tokens[CallbackIdOf(r)].status \in TerminalToken
              /\ payResult[r] = ExpectedEnd(r).result
              /\ item.status = ExpectedEnd(r).status
              /\ item.callback_id = ExpectedEnd(r).callback_id
              /\ item.transaction_id = ExpectedEnd(r).transaction_id

\* C5: a run that needed a review ends, however often it was suspended,
\* interrupted and replayed, with the result and the record (status,
\* callback_id, transaction_id) that its input and its callback's outcome
\* determine, the same as with no interruption, provided no table call failed
\* and no admin request wrote the record; the callback_id it stored, and the
\* one it waits on after every replay, is the id of its one callback.
C5_SameEndAfterReplay == C5_Inv

\* C5 witness: a run interrupted in set_awaiting_approval, replayed, resumed
\* by a resolution of its callback and completed.
C5_Witness ==
    /\ "run1" \in ReviewRuns
    /\ Undisturbed
    /\ restarts = 1
    /\ ran["run1"]["set_awaiting_approval"] = 2
    /\ tokens["cb-run1"].status = "RESOLVED_SUCCESS"
    /\ pc["run1"] = "done"
    /\ payResult["run1"].status = "completed"

C7_Inv ==
    \A r \in Runs :
        /\ failedAt[r] # "KeyError"
        /\ loc[r].fraud_check # None =>
              /\ loc[r].fraud_check = log[r]["check_fraud"].result
              /\ loc[r].fraud_check =
                    check_fraud(payEvent[r].payment_id, payEvent[r].amount).result

\* C7: the value the handler takes from the parallel's results and uses for
\* the requires_review decision is the result of check_fraud, whichever branch
\* completed first, on the first invocation and on every replay.
C7_FraudCheckFirst == C7_Inv

\* C7 witness: verify_customer completed first and the handler, re-invoked
\* after an interruption, holds the fraud check.
C7_Witness ==
    /\ firstDone["run1"] = "verify-customer"
    /\ restarts = 1
    /\ pc["run1"] = "create_callback"
    /\ loc["run1"].fraud_check # None

\* No step after validate_payment runs for a payment whose amount is <= 0: no
\* fraud check, no callback, no charge, no notification.
C11_NoLaterStep ==
    \A r \in Runs :
        (payEvent[r] # NoEvent /\ payEvent[r].amount <= 0) =>
            /\ \A op \in StepOps \ {"validate_payment"} : ran[r][op] = 0
            /\ tokens[CallbackIdOf(r)].status = "NONE"
            /\ pc[r] \in {"start", "validate_payment", "suspended", "failed"}

\* C11 (the claim as stated): a payment whose amount is <= 0 fails in
\* validate_payment with its record set to REJECTED, reason invalid_amount,
\* and no later step of the run executes.
C11_InvalidAmountRejected ==
    /\ C11_NoLaterStep
    /\ \A r \in Runs :
          (payEvent[r] # NoEvent /\ payEvent[r].amount <= 0 /\ pc[r] = "failed") =>
              /\ failedAt[r] = "validate_payment"
              /\ table[payEvent[r].payment_id].status = "REJECTED"
              /\ table[payEvent[r].payment_id].reason = "invalid_amount"

\* C17 (the claim as stated): when the workflow has returned status
\* "completed", the payment record has status COMPLETED and the
\* transaction_id of the returned result.
C17_CompletedRecorded ==
    \A r \in Runs :
        (pc[r] = "done" /\ payResult[r].status = "completed") =>
            /\ table[payEvent[r].payment_id].status = "COMPLETED"
            /\ table[payEvent[r].payment_id].transaction_id = payResult[r].transaction_id

C12_Step ==
    \A a \in AdminReqs :
        (admin[a].pc = "idle" /\ admin'[a].pc # "idle") =>
            LET pid == admin'[a].payment_id
                item == IF pid = "" THEN NoItem ELSE table[pid] IN
            IF pid # "" /\ item.exists /\ item.status = "AWAITING_APPROVAL"
               /\ item.callback_id # ""
            THEN admin'[a].pc = "send" /\ admin'[a].callback_id = item.callback_id
            ELSE /\ admin'[a].pc = "done"
                 /\ admin'[a].statusCode = (IF pid # "" /\ ~item.exists THEN 404 ELSE 400)
                 /\ admin'[a].answer = ""
                 /\ table' = table
                 /\ tokens' = tokens

C12_Inv ==
    \A a \in AdminReqs :
        /\ admin[a].statusCode \in {400, 404} => admin[a].pc = "done" /\ admin[a].answer = ""
        /\ admin[a].pc \in {"send", "update"} => admin[a].callback_id # ""

\* C12: a request to approve or reject goes on to send a callback only if the
\* record it read exists, is AWAITING_APPROVAL and has a callback_id; with no
\* payment_id (400), an unknown payment (404), another status (400) or no
\* callback_id (400) it is answered at once, sends no callback and writes
\* nothing.
C12_RefusedRequestNoEffect == [](C12_Inv) /\ [][C12_Step]_vars

\* C12 witness: one request refused with 404 before the record existed, and
\* one refused with 400 for a record that had left AWAITING_APPROVAL with its
\* callback_id.
C12_Witness ==
    /\ admin["req1"].statusCode = 404
    /\ admin["req2"].statusCode = 400
    /\ admin["req2"].payment_id = "pay_1"
    /\ table["pay_1"].callback_id # ""
    /\ table["pay_1"].status = "REJECTED"

C14_Step ==
    /\ (admin' # admin /\ table' # table) =>
          \E a \in AdminReqs : /\ admin[a].pc = "update"
                                /\ admin[a].code \in {200, 400}
                                /\ admin'[a].statusCode = 200
    /\ \A a \in AdminReqs :
          (admin[a].pc = "send" /\ admin'[a].pc # "send" /\ admin'[a].code \notin {200, 400}) =>
              /\ admin'[a].pc = "done"
              /\ admin'[a].statusCode = 500
              /\ table' = table

C14_Inv ==
    \A a \in AdminReqs :
        /\ (admin[a].pc = "update" \/ admin[a].statusCode = 200) => admin[a].code \in {200, 400}
        /\ admin[a].statusCode = 500 => admin[a].code \notin {200, 400}
        /\ (admin[a].statusCode = 500 /\ tokens[admin[a].callback_id].status = "PENDING") =>
              /\ table[admin[a].payment_id].status = "AWAITING_APPROVAL"
              /\ table[admin[a].payment_id].callback_id = admin[a].callback_id
              /\ handle_approval_checks(admin[a].payment_id, table[admin[a].payment_id]) = 0

\* C14: handle_approval writes the status only after its callback request was
\* answered with success or with HTTP 400; a request whose callback is not
\* delivered, or is answered with another HTTP error, writes nothing and is
\* answered 500, and while the callback is still pending the record is
\* AWAITING_APPROVAL with its callback_id, so that the request can be repeated.
C14_WriteAfterCallback == [](C14_Inv) /\ [][C14_Step]_vars

\* C14 witness: a request answered 500 for a callback that was not delivered,
\* the callback pending, and a second request for the same payment past its
\* checks.
C14_Witness ==
    /\ admin["req1"].statusCode = 500
    /\ admin["req1"].answer = "undelivered"
    /\ tokens["cb-run1"].status = "PENDING"
    /\ table["pay_1"].status = "AWAITING_APPROVAL"
    /\ admin["req2"].pc = "send"

\* C13 (the claim as stated): once the workflow and every admin request have
\* ended, the record is not APPROVED if the callback was resolved as failed or
\* timed out, and is not REJECTED by the admin API if the callback was
\* resolved as approved.
C13_StatusAgreesWithOutcome ==
    \A r \in Runs :
        LET tok == tokens[CallbackIdOf(r)]
            item == table[payEvent[r].payment_id] IN
        (/\ payEvent[r] # NoEvent
         /\ pc[r] \in {"done", "failed"}
         /\ \A a \in AdminReqs : admin[a].pc \in {"off", "done"}) =>
            /\ tok.status \in {"RESOLVED_FAILURE", "EXPIRED"} => item.status # "APPROVED"
            /\ (tok.status = "RESOLVED_SUCCESS" /\ Approved(ReviewResult(tok))) =>
                  item.status # "REJECTED"

\* After validate_payment the handler holds the checkpointed result of
\* validate_payment, on the first invocation and on every replay.
C15_Validated ==
    \A r \in Runs :
        loc[r].validated # None => loc[r].validated = log[r]["validate_payment"].result

\* Every table write of a run that is past validate_payment goes to the record
\* of the checkpointed payment_id.
C15_WritesAfterValidate ==
    [][\A p \in TableKeys : \A r \in Runs :
          (table'[p] # table[p] /\ pc[r] \in StepOps \cup {"parallel"}
           /\ pc[r] # "validate_payment") =>
              /\ log[r]["validate_payment"].status = "SUCCEEDED"
              /\ p = log[r]["validate_payment"].result.payment_id]_vars

\* C15 (the claim as stated): the steps of one run, validate_payment and those
\* after it, across all replays, write to one single payment record, also
\* when the payment_id is generated from the clock.
C15_SingleRecord ==
    /\ C15_Validated
    /\ Cardinality({p \in TableKeys : table[p].exists}) <= 1

\* C16 (the claim as stated): update_payment_status never creates a record; a
\* record comes into being only by the put_item of validate_payment, under
\* every interleaving of clear_all_payments with a step's read and update.
C16_UpdateNeverCreates ==
    [][\A p \in TableKeys :
          (~table[p].exists /\ table'[p].exists) =>
              \E r \in Runs : pc[r] = "validate_payment" /\ phase[r] = "enter"]_vars

====
